---- MODULE Spec2Model ----
(***************************************************************************)
(* Model of the real-time messaging and presence subsystem of the         *)
(* messenger: the Socket.IO handlers and HTTP routes of main.py and the    *)
(* Database methods of db.py they call.                                    *)
(*                                                                         *)
(* Strings that the code parses (room names, ids sent as text) are         *)
(* sequences of one-character strings, so that split(':'), int() and       *)
(* f-string formatting are computed, not assumed.                          *)
(*                                                                         *)
(* Columns no handler reads back into a decision (users.password,          *)
(* users.status, chats.name, channels.name, *.timestamp) are not part of   *)
(* the rows.  chat_members is a set of (chat_id, user_id) pairs: every     *)
(* query of the code on that table is an existence test or a whole-chat    *)
(* delete, which duplicates do not change.                                 *)
(***************************************************************************)
EXTENDS Integers, Sequences, FiniteSets, TLC

VARIABLES
    users,              \* table users: set of [id, name]
    chats,              \* table chats: set of [id, admin_id]
    channels,           \* table channels: set of [id, admin_id]
    chat_members,       \* table chat_members: set of [chat_id, user_id]
    personal_messages,  \* table personal_messages: set of [id, sender_id, to_user_id, content]
    chat_messages,      \* table chat_messages: set of [id, chat_id, sender_id, content]
    channel_messages,   \* table channel_messages: set of [id, channel_id, sender_id, content]
    ONLINE_USER_IDS,    \* main.py global set of user ids
    conn,               \* Socket.IO connections: sid -> [live, username, rooms, pending]
    ev,                 \* the event (handler, connection, payload) handled by the last step
    emitted,            \* the events the last step emitted, in order
    ret                 \* what the last step's store call returned, and how the handler ended

db_vars == <<users, chats, channels, chat_members,
             personal_messages, chat_messages, channel_messages>>
vars == <<users, chats, channels, chat_members,
          personal_messages, chat_messages, channel_messages,
          ONLINE_USER_IDS, conn, ev, emitted, ret>>

----------------------------------------------------------------------------
(* Bounds of the model *)

\* Users that sign up, and rows the three message logs hold together
MaxUsers == 2
MaxMsgs == 2

----------------------------------------------------------------------------
(* Python values *)

\* Python's None where the code holds an Optional[int]; row ids are >= 1.
None == -1

\* session.get('username') when the session carries no username
NoUsername == ""

\* A value of the event payload (a JSON value): absent/None, an int or a string.
JNone == [t |-> "none", n |-> 0, s |-> <<>>]
JInt(n) == [t |-> "int", n |-> n, s |-> <<>>]
JStr(s) == [t |-> "str", n |-> 0, s |-> s]

\* Python truthiness: `not v` for None, 0 and ''
Falsy(v) == \/ v.t = "none"
            \/ v.t = "int" /\ v.n = 0
            \/ v.t = "str" /\ v.s = <<>>

Digits == <<"0", "1", "2", "3", "4", "5", "6", "7", "8", "9">>

IsDigit(ch) == \E i \in 1..10 : Digits[i] = ch

DigitVal(ch) == (CHOOSE i \in 1..10 : Digits[i] = ch) - 1

RECURSIVE StrToInt(_)
StrToInt(s) ==
    IF s = <<>> THEN 0
    ELSE StrToInt(SubSeq(s, 1, Len(s) - 1)) * 10 + DigitVal(s[Len(s)])

\* int(s) of a str raises ValueError unless s is a numeral (the inputs of the
\* model use digits only: no sign, blank or underscore).
StrIsInt(s) == s # <<>> /\ \A i \in 1..Len(s) : IsDigit(s[i])

\* int(v): [err, val]; TypeError for None, ValueError for a non-numeral.
PyInt(v) ==
    IF v.t = "none" THEN [err |-> "TypeError", val |-> None]
    ELSE IF v.t = "int" THEN [err |-> "", val |-> v.n]
    ELSE IF StrIsInt(v.s) THEN [err |-> "", val |-> StrToInt(v.s)]
    ELSE [err |-> "ValueError", val |-> None]

\* str(n) / f"{n}" of a non-negative int
RECURSIVE IntToStr(_)
IntToStr(n) ==
    IF n < 10 THEN <<Digits[n + 1]>>
    ELSE IntToStr(n \div 10) \o <<Digits[(n % 10) + 1]>>

\* s.split(':'): the parts between the colons (always at least one part)
RECURSIVE Split(_)
Split(s) ==
    IF \A i \in 1..Len(s) : s[i] # ":" THEN <<s>>
    ELSE LET k == CHOOSE i \in 1..Len(s) :
                      s[i] = ":" /\ \A j \in 1..(i - 1) : s[j] # ":"
         IN <<SubSeq(s, 1, k - 1)>> \o Split(SubSeq(s, k + 1, Len(s)))

SetMax(S) == CHOOSE x \in S : \A y \in S : y <= x
SetMin(S) == CHOOSE x \in S : \A y \in S : x <= y

----------------------------------------------------------------------------
(* db.py: the Database methods, as operators on the tables *)

\* INTEGER PRIMARY KEY without AUTOINCREMENT: the new rowid is one more than
\* the largest rowid in the table, 1 in an empty table.
NextRowId(table) ==
    IF table = {} THEN 1 ELSE SetMax({r.id : r \in table}) + 1

get_all_usernames == {u.name : u \in users}

get_user_id(name) ==
    IF \E u \in users : u.name = name
    THEN (CHOOSE u \in users : u.name = name).id
    ELSE None

\* Mutant: the WHERE clause without `AND user_id = ?`
is_user_chat_member_any_user(chat_id, user_id) ==
    \E m \in chat_members : m.chat_id = chat_id

\* Mutant: membership that also asks for the chat's admin, as channels do
is_user_chat_member_admin_only(chat_id, user_id) ==
    /\ \E m \in chat_members : m.chat_id = chat_id /\ m.user_id = user_id
    /\ \E c \in chats : c.id = chat_id /\ c.admin_id = user_id

is_user_chat_member(chat_id, user_id) ==
    \E m \in chat_members : m.chat_id = chat_id /\ m.user_id = user_id

is_user_chat_admin(user_id, chat_id) ==
    \E c \in chats : c.id = chat_id /\ c.admin_id = user_id

\* Mutant: the channel row is found, its admin_id is not compared
is_user_channel_admin_any_user(user_id, channel_id) ==
    \E c \in channels : c.id = channel_id

is_user_channel_admin(user_id, channel_id) ==
    \E c \in channels : c.id = channel_id /\ c.admin_id = user_id

\* create_*_message: [rows: the table after the INSERT, lastrowid]
create_personal_message(sender_id, to_user_id, content) ==
    LET id == NextRowId(personal_messages) IN
    [rows |-> personal_messages \cup
                {[id |-> id, sender_id |-> sender_id,
                  to_user_id |-> to_user_id, content |-> content]},
     lastrowid |-> id]

create_chat_message(chat_id, sender_id, content) ==
    LET id == NextRowId(chat_messages) IN
    [rows |-> chat_messages \cup
                {[id |-> id, chat_id |-> chat_id,
                  sender_id |-> sender_id, content |-> content]},
     lastrowid |-> id]

\* Mutant: the two ids bound to the INSERT in the order (sender_id, channel_id)
create_channel_message_swapped(channel_id, sender_id, content) ==
    LET id == NextRowId(channel_messages) IN
    [rows |-> channel_messages \cup
                {[id |-> id, channel_id |-> sender_id,
                  sender_id |-> channel_id, content |-> content]},
     lastrowid |-> id]

create_channel_message(channel_id, sender_id, content) ==
    LET id == NextRowId(channel_messages) IN
    [rows |-> channel_messages \cup
                {[id |-> id, channel_id |-> channel_id,
                  sender_id |-> sender_id, content |-> content]},
     lastrowid |-> id]

\* Mutant: DELETE ... WHERE id = ? without `AND sender_id = ?`
OwnedRows_any_sender(table, message_id, owner_id) ==
    {r \in table : r.id = message_id}

\* DELETE FROM <table> WHERE id = ? AND sender_id = ?: the rows the statement hits
OwnedRows(table, message_id, owner_id) ==
    {r \in table : r.id = message_id /\ r.sender_id = owner_id}

\* delete_*_message: [rows: the table after the DELETE, ok: rowcount > 0]
delete_personal_message(message_id, owner_id) ==
    LET hit == OwnedRows(personal_messages, message_id, owner_id) IN
    [rows |-> personal_messages \ hit, ok |-> Cardinality(hit) > 0]

\* Mutant: DELETE FROM chat_messages WHERE id = ? (any sender's row)
delete_chat_message_by_id(message_id, owner_id) ==
    LET hit == {r \in chat_messages : r.id = message_id} IN
    [rows |-> chat_messages \ hit, ok |-> Cardinality(hit) > 0]

delete_chat_message(message_id, owner_id) ==
    LET hit == OwnedRows(chat_messages, message_id, owner_id) IN
    [rows |-> chat_messages \ hit, ok |-> Cardinality(hit) > 0]

\* Mutant: DELETE FROM channel_messages WHERE id = ? (any sender's row)
delete_channel_message_by_id(message_id, owner_id) ==
    LET hit == {r \in channel_messages : r.id = message_id} IN
    [rows |-> channel_messages \ hit, ok |-> Cardinality(hit) > 0]

delete_channel_message(message_id, owner_id) ==
    LET hit == OwnedRows(channel_messages, message_id, owner_id) IN
    [rows |-> channel_messages \ hit, ok |-> Cardinality(hit) > 0]

\* Mutant: the chat row and its messages are deleted, the membership rows stay
delete_chat_keep_members(chat_id, owner_id) ==
    IF ~is_user_chat_admin(owner_id, chat_id)
    THEN [ok |-> FALSE, chats |-> chats, chat_members |-> chat_members,
          chat_messages |-> chat_messages]
    ELSE [ok |-> Cardinality({c \in chats : c.id = chat_id}) > 0,
          chats |-> {c \in chats : c.id # chat_id},
          chat_members |-> chat_members,
          chat_messages |-> {m \in chat_messages : m.chat_id # chat_id}]

\* delete_chat: the cascade and `rowcount > 0` of the last DELETE (the chats row)
delete_chat(chat_id, owner_id) ==
    IF ~is_user_chat_admin(owner_id, chat_id)
    THEN [ok |-> FALSE, chats |-> chats, chat_members |-> chat_members,
          chat_messages |-> chat_messages]
    ELSE [ok |-> Cardinality({c \in chats : c.id = chat_id}) > 0,
          chats |-> {c \in chats : c.id # chat_id},
          chat_members |-> {m \in chat_members : m.chat_id # chat_id},
          chat_messages |-> {m \in chat_messages : m.chat_id # chat_id}]

delete_channel(channel_id, owner_id) ==
    IF ~is_user_channel_admin(owner_id, channel_id)
    THEN [ok |-> FALSE, channels |-> channels, channel_messages |-> channel_messages]
    ELSE [ok |-> Cardinality({c \in channels : c.id = channel_id}) > 0,
          channels |-> {c \in channels : c.id # channel_id},
          channel_messages |-> {m \in channel_messages : m.channel_id # channel_id}]

----------------------------------------------------------------------------
(* Rooms and emitted events *)

Str_user == <<"u", "s", "e", "r", ":">>
Str_chat == <<"c", "h", "a", "t", ":">>
Str_channel == <<"c", "h", "a", "n", "n", "e", "l", ":">>

UserRoom(user_id) == Str_user \o IntToStr(user_id)          \* f'user:{user_id}'
ChatRoom(chat_id) == Str_chat \o IntToStr(chat_id)          \* f"chat:{chat_id}"
ChannelRoom(channel_id) == Str_channel \o IntToStr(channel_id)  \* f"channel:{channel_id}"

\* a, b = sorted([int(user_id), int(peer_id)]); room = f"{a}:{b}"
SortedPairRoom(user_id, peer_id) ==
    IntToStr(SetMin({user_id, peer_id})) \o <<":">> \o IntToStr(SetMax({user_id, peer_id}))

\* Where an emit goes: every connection (sio.emit without `to`), the members
\* of a room (`to=room`), or the connection of the handler (emit without `to`).
ToAll == [kind |-> "all", room |-> <<>>, sid |-> 0]
ToRoom(room) == [kind |-> "room", room |-> room, sid |-> 0]
ToSid(c) == [kind |-> "sid", room |-> <<>>, sid |-> c]

Payload == [user_id |-> None, online |-> FALSE, id |-> None, username |-> NoUsername,
            text |-> <<>>, message |-> "", room |-> <<>>, ref |-> None]

\* One emitted event; skip_sid is the connection left out by include_self=False (0: none).
Emit(event, to, payload, skip_sid) ==
    [event |-> event, to |-> to, payload |-> payload, skip_sid |-> skip_sid]

\* The connections an emitted event is delivered to, given the room memberships
Recipients(e, cs) ==
    {c \in DOMAIN cs :
        /\ cs[c].live
        /\ c # e.skip_sid
        /\ \/ e.to.kind = "all"
           \/ e.to.kind = "sid" /\ e.to.sid = c
           \/ e.to.kind = "room" /\ e.to.room \in cs[c].rooms}

EvBase == [handler |-> "", sid |-> 0, username |-> NoUsername, user_id |-> None,
           room |-> JNone, text |-> JNone, scope |-> "", id |-> JNone,
           message_id |-> JNone, ref |-> JNone]

\* ret.end: "return" (the handler returned), "reject" (connect returned False),
\* "raise" (an exception left the handler: ret.exc names it), "commit" (the
\* handler committed its INSERT and has its emit ahead)
RetBase == [ok |-> FALSE, lastrowid |-> None, end |-> "return", exc |-> ""]

----------------------------------------------------------------------------
(* Inputs *)

NamePool == <<"A", "B", "C", "D">>
Names == {NamePool[i] : i \in 1..MaxUsers}

\* Connection slots: two where presence and rooms are at stake, one (opened
\* and closed by any user in turn) where a single handler's effect on the
\* store is.
Sids == {1, 2}
MsgSids == {1}

\* The model holds one chat and one channel at a time (a deleted one can be
\* created again, and gets the same rowid).
ChatIdInputs == {1}
ChannelIdInputs == {1}

Hi == <<"h", "i">>
Room_1_2 == <<"1", ":", "2">>
Room_2_1 == <<"2", ":", "1">>

\* personal_message payloads (room, text): pairs in both orders, a pair the
\* sender may not be part of, a numeral with a leading zero, a non-numeral
\* part, strings that do not split into two parts, and missing fields.
PersonalInputs ==
    {<<JStr(Room_1_2), JStr(Hi)>>, <<JStr(Room_2_1), JStr(Hi)>>,
     <<JStr(<<"2", ":", "3">>), JStr(Hi)>>, <<JStr(<<"0", "1", ":", "2">>), JStr(Hi)>>,
     <<JStr(<<"1", ":", "x">>), JStr(Hi)>>, <<JStr(<<"1", "2">>), JStr(Hi)>>,
     <<JStr(<<"1", ":", "2", ":", "3">>), JStr(Hi)>>,
     <<JNone, JStr(Hi)>>, <<JStr(Room_1_2), JNone>>, <<JStr(Room_1_2), JStr(<<>>)>>}

\* chat_message / channel_message payloads (chat_id or channel_id, text)
ScopedInputs ==
    {<<JInt(1), JStr(Hi)>>, <<JStr(<<"1">>), JStr(Hi)>>, <<JInt(2), JStr(Hi)>>,
     <<JStr(<<"0", "2">>), JStr(Hi)>>, <<JStr(<<"x">>), JStr(Hi)>>,
     <<JInt(0), JStr(Hi)>>, <<JNone, JStr(Hi)>>,
     <<JInt(1), JNone>>, <<JInt(1), JStr(<<>>)>>}

\* delete_message payloads (id, message_id, peer_id / chat_id / channel_id)
DeleteInputs ==
    {<<JInt(1), JNone, JInt(1)>>, <<JStr(<<"2">>), JNone, JInt(1)>>,
     <<JInt(1), JNone, JStr(<<"2">>)>>, <<JNone, JInt(1), JStr(<<"2">>)>>,
     <<JInt(1), JNone, JNone>>, <<JInt(1), JNone, JStr(<<"x">>)>>,
     <<JStr(<<"x">>), JNone, JInt(1)>>, <<JNone, JNone, JInt(1)>>,
     <<JInt(1), JNone, JInt(0)>>}

\* chat_id / channel_id of the delete routes
RefInputs == {JNone, JInt(1), JStr(<<"2">>), JStr(<<"x">>)}

\* rooms of join / leave / typing
JoinRoomInputs == {JNone, JStr(Room_1_2), JStr(ChatRoom(1))}
TypingRoomInputs ==
    {JNone, JStr(Room_1_2), JStr(Room_2_1), JStr(ChatRoom(1)), JStr(<<"1", ":", "x">>),
     JStr(<<"1", ":", "1">>), JStr(<<"2", ":", "3">>)}

----------------------------------------------------------------------------
(* Initial state: empty tables (Database._create_tables), ONLINE_USER_IDS = set() *)

NoConn == [live |-> FALSE, username |-> NoUsername, rooms |-> {}, pending |-> <<>>]

Init ==
    /\ users = {}
    /\ chats = {}
    /\ channels = {}
    /\ chat_members = {}
    /\ personal_messages = {}
    /\ chat_messages = {}
    /\ channel_messages = {}
    /\ ONLINE_USER_IDS = {}
    /\ conn = [c \in Sids |-> NoConn]
    /\ ev = EvBase
    /\ emitted = <<>>
    /\ ret = RetBase

----------------------------------------------------------------------------
(* main.py: Socket.IO handlers *)

\* The model stops inserting messages once the three logs hold MaxMsgs rows,
\* and stops inserting into a log whose next rowid would exceed MaxMsgs + 1.
StoreHasRoom(rows) ==
    /\ Cardinality(personal_messages) + Cardinality(chat_messages)
           + Cardinality(channel_messages) < MaxMsgs
    /\ NextRowId(rows) <= MaxMsgs + 1

\* `if x:` on an Optional[int]
Truthy(x) == x # None /\ x # 0

\* ONLINE_USER_IDS after handle_connect resolved user_id
ConnectOnline(user_id) == ONLINE_USER_IDS \cup {user_id}

\* Mutant: handle_disconnect without ONLINE_USER_IDS.discard(user_id)
DisconnectOnline_keep(user_id) == ONLINE_USER_IDS

\* ONLINE_USER_IDS after handle_disconnect of a user it holds
DisconnectOnline(user_id) == ONLINE_USER_IDS \ {user_id}

\* Mutant: handle_connect without its `if not username: return False`
NoSession_never(username) == FALSE

\* `not username` on session.get('username'): no username, or an empty one
NoSession(username) == username = NoUsername

\* @sio.on('connect'); username is session.get('username') of the client's
\* signed session cookie.
handle_connect(c, username) ==
    /\ ~conn[c].live
    /\ ev' = [EvBase EXCEPT !.handler = "connect", !.sid = c, !.username = username,
                            !.user_id = get_user_id(username)]
    /\ UNCHANGED db_vars
    /\ IF NoSession(username)
       THEN /\ ret' = [RetBase EXCEPT !.end = "reject"]
            /\ emitted' = <<>>
            /\ UNCHANGED <<ONLINE_USER_IDS, conn>>
       ELSE LET user_id == get_user_id(username) IN
            /\ ret' = RetBase
            /\ IF Truthy(user_id)
               THEN /\ ONLINE_USER_IDS' = ConnectOnline(user_id)
                    /\ conn' = [conn EXCEPT ![c] = [live |-> TRUE, username |-> username,
                                                    rooms |-> {UserRoom(user_id)},
                                                    pending |-> <<>>]]
                    /\ emitted' =
                         <<Emit("presence", ToAll,
                                [Payload EXCEPT !.user_id = user_id, !.online = TRUE], 0),
                           Emit("system", ToSid(c),
                                [Payload EXCEPT !.message = "connected",
                                                !.username = username], 0)>>
               ELSE /\ ONLINE_USER_IDS' = ONLINE_USER_IDS
                    /\ conn' = [conn EXCEPT ![c] = [live |-> TRUE, username |-> username,
                                                    rooms |-> {}, pending |-> <<>>]]
                    /\ emitted' =
                         <<Emit("system", ToSid(c),
                                [Payload EXCEPT !.message = "connected",
                                                !.username = username], 0)>>

\* Mutant: the user is removed from the registry without a presence event
DisconnectPresence_silent(user_id) == <<>>

\* sio.emit('presence', {'user_id': user_id, 'online': False})
DisconnectPresence(user_id) ==
    <<Emit("presence", ToAll,
           [Payload EXCEPT !.user_id = user_id, !.online = FALSE], 0)>>

\* @sio.on('disconnect'); Socket.IO drops the closed connection's rooms.
handle_disconnect(c) ==
    /\ conn[c].live
    /\ LET username == conn[c].username
           user_id == get_user_id(username)
       IN /\ ev' = [EvBase EXCEPT !.handler = "disconnect", !.sid = c,
                                  !.username = username, !.user_id = user_id]
          /\ IF username # NoUsername /\ Truthy(user_id) /\ user_id \in ONLINE_USER_IDS
             THEN /\ ONLINE_USER_IDS' = DisconnectOnline(user_id)
                  /\ emitted' = DisconnectPresence(user_id)
             ELSE /\ ONLINE_USER_IDS' = ONLINE_USER_IDS
                  /\ emitted' = <<>>
    /\ conn' = [conn EXCEPT ![c] = NoConn]
    /\ ret' = RetBase
    /\ UNCHANGED db_vars

\* join_room(room): the rooms of the connection afterwards
join_room(rooms, room) == rooms \cup {room}

\* Mutant: leaving a room keeps the membership
leave_room_keep(rooms, room) == rooms

\* leave_room(room): the rooms of the connection afterwards
leave_room(rooms, room) == rooms \ {room}

\* @sio.on('join')
handle_join(c, room) ==
    /\ conn[c].live
    /\ ev' = [EvBase EXCEPT !.handler = "join", !.sid = c,
                            !.username = conn[c].username, !.room = room]
    /\ ret' = RetBase
    /\ UNCHANGED <<db_vars, ONLINE_USER_IDS>>
    /\ IF Falsy(room)
       THEN /\ emitted' = <<>>
            /\ conn' = conn
       ELSE /\ conn' = [conn EXCEPT ![c].rooms = join_room(@, room.s)]
            /\ emitted' = <<Emit("system", ToRoom(room.s),
                                 [Payload EXCEPT !.message = "joined room",
                                                 !.room = room.s], 0)>>

\* @sio.on('leave')
handle_leave(c, room) ==
    /\ conn[c].live
    /\ ev' = [EvBase EXCEPT !.handler = "leave", !.sid = c,
                            !.username = conn[c].username, !.room = room]
    /\ ret' = RetBase
    /\ UNCHANGED <<db_vars, ONLINE_USER_IDS>>
    /\ IF Falsy(room)
       THEN /\ emitted' = <<>>
            /\ conn' = conn
       ELSE /\ conn' = [conn EXCEPT ![c].rooms = leave_room(@, room.s)]
            /\ emitted' = <<Emit("system", ToRoom(room.s),
                                 [Payload EXCEPT !.message = "left room",
                                                 !.room = room.s], 0)>>

\* recipient_id = uid2 if user_id == uid1 else uid1
TypingRecipient(user_id, uid1, uid2) == IF user_id = uid1 THEN uid2 ELSE uid1

\* @sio.on('typing')
handle_typing(c, room) ==
    /\ conn[c].live
    /\ LET username == conn[c].username
           user_id == get_user_id(username)
           parts == Split(room.s)
           uid1 == PyInt(JStr(parts[1]))
           uid2 == PyInt(JStr(parts[2]))
           typing == Emit("typing", ToRoom(room.s), [Payload EXCEPT !.user_id = user_id], c)
       IN /\ ev' = [EvBase EXCEPT !.handler = "typing", !.sid = c, !.username = username,
                                  !.user_id = user_id, !.room = room]
          /\ emitted' =
               IF username = NoUsername \/ Falsy(room) THEN <<>>
               ELSE IF Len(parts) # 2 THEN <<typing>>
               ELSE IF uid1.err # "" \/ uid2.err # "" THEN <<typing>>
               ELSE LET recipient_id == TypingRecipient(user_id, uid1.val, uid2.val)
                    IN <<typing,
                         Emit("typing_presence", ToRoom(UserRoom(recipient_id)),
                              [Payload EXCEPT !.user_id = user_id], 0)>>
    /\ ret' = RetBase
    /\ UNCHANGED <<db_vars, ONLINE_USER_IDS, conn>>

\* data.get('id') or data.get('message_id')
PyOr(x, y) == IF Falsy(x) THEN y ELSE x

\* @sio.on('delete_message'); ref is the field the scope reads: peer_id,
\* chat_id or channel_id.
delete_message(c, scope, id, message_id, ref) ==
    /\ conn[c].live
    /\ LET username == conn[c].username
           user_id == get_user_id(username)
           msg_id == PyInt(PyOr(id, message_id))
           ref_int == PyInt(ref)
           deleted == Emit("message_deleted", ToAll, [Payload EXCEPT !.id = msg_id.val], 0)
       IN /\ ev' = [EvBase EXCEPT !.handler = "delete_message", !.sid = c,
                                  !.username = username, !.user_id = user_id,
                                  !.scope = scope, !.id = id, !.message_id = message_id,
                                  !.ref = ref]
          /\ IF username = NoUsername \/ ~Truthy(user_id) \/ msg_id.err # ""
             THEN /\ ret' = RetBase
                  /\ emitted' = <<>>
                  /\ UNCHANGED <<personal_messages, chat_messages, channel_messages>>
             ELSE IF scope = "personal"
             THEN LET peer_id == IF ref_int.err # "" THEN None ELSE ref_int.val
                      r == delete_personal_message(msg_id.val, user_id)
                  IN /\ personal_messages' = r.rows
                     /\ ret' = [RetBase EXCEPT !.ok = r.ok]
                     /\ emitted' =
                          IF ~r.ok THEN <<>>
                          ELSE IF Truthy(peer_id)
                          THEN <<[deleted EXCEPT
                                    !.to = ToRoom(SortedPairRoom(user_id, peer_id))]>>
                          ELSE <<deleted>>
                     /\ UNCHANGED <<chat_messages, channel_messages>>
             ELSE IF scope = "chat"
             THEN IF ref_int.err # ""
                  THEN /\ ret' = RetBase
                       /\ emitted' = <<>>
                       /\ UNCHANGED <<personal_messages, chat_messages, channel_messages>>
                  ELSE LET r == delete_chat_message(msg_id.val, user_id)
                       IN /\ chat_messages' = r.rows
                          /\ ret' = [RetBase EXCEPT !.ok = r.ok]
                          /\ emitted' =
                               IF r.ok
                               THEN <<[deleted EXCEPT !.to = ToRoom(ChatRoom(ref_int.val))]>>
                               ELSE <<>>
                          /\ UNCHANGED <<personal_messages, channel_messages>>
             ELSE IF scope = "channel"
             THEN IF ref_int.err # ""
                  THEN /\ ret' = RetBase
                       /\ emitted' = <<>>
                       /\ UNCHANGED <<personal_messages, chat_messages, channel_messages>>
                  ELSE LET r == delete_channel_message(msg_id.val, user_id)
                       IN /\ channel_messages' = r.rows
                          /\ ret' = [RetBase EXCEPT !.ok = r.ok]
                          /\ emitted' =
                               IF r.ok
                               THEN <<[deleted EXCEPT
                                         !.to = ToRoom(ChannelRoom(ref_int.val))]>>
                               ELSE <<>>
                          /\ UNCHANGED <<personal_messages, chat_messages>>
             ELSE /\ ret' = RetBase
                  /\ emitted' = <<>>
                  /\ UNCHANGED <<personal_messages, chat_messages, channel_messages>>
    /\ UNCHANGED <<users, chats, channels, chat_members, ONLINE_USER_IDS, conn>>

\* Mutant: the sender taken to be the first id of the pair
OtherUserId_second(self_id, user1_id, user2_id) == user2_id

\* other_user_id = user2_id if self_id == user1_id else user1_id
OtherUserId(self_id, user1_id, user2_id) ==
    IF self_id = user1_id THEN user2_id ELSE user1_id

\* @sio.on('personal_message'); `user1, user2 = room.split(':')` is outside
\* the try: a room that does not split into two parts raises ValueError.
personal_message(c, room, text) ==
    /\ conn[c].live
    /\ LET username == conn[c].username
           self_id == get_user_id(username)
           parts == Split(room.s)
           user1_id == PyInt(JStr(parts[1]))
           user2_id == PyInt(JStr(parts[2]))
       IN /\ ev' = [EvBase EXCEPT !.handler = "personal_message", !.sid = c,
                                  !.username = username, !.user_id = self_id,
                                  !.room = room, !.text = text]
          /\ IF Falsy(text) \/ username = NoUsername \/ Falsy(room)
             THEN /\ ret' = RetBase
                  /\ emitted' = <<>>
                  /\ UNCHANGED personal_messages
             ELSE IF Len(parts) # 2
             THEN /\ ret' = [RetBase EXCEPT !.end = "raise", !.exc = "ValueError"]
                  /\ emitted' = <<>>
                  /\ UNCHANGED personal_messages
             ELSE IF user1_id.err # "" \/ user2_id.err # ""
             THEN /\ ret' = RetBase
                  /\ emitted' = <<>>
                  /\ UNCHANGED personal_messages
             ELSE LET other_user_id == OtherUserId(self_id, user1_id.val, user2_id.val)
                      r == create_personal_message(self_id, other_user_id, text.s)
                  IN /\ StoreHasRoom(personal_messages)
                     /\ personal_messages' = r.rows
                     /\ ret' = [RetBase EXCEPT !.lastrowid = r.lastrowid]
                     /\ emitted' =
                          <<Emit("personal_message", ToRoom(room.s),
                                 [Payload EXCEPT !.id = r.lastrowid, !.username = username,
                                                 !.text = text.s], 0)>>
    /\ UNCHANGED <<users, chats, channels, chat_members, chat_messages, channel_messages,
                   ONLINE_USER_IDS, conn>>

\* @sio.on('chat_message')
chat_message(c, chat_id, text) ==
    /\ conn[c].live
    /\ LET username == conn[c].username
           user_id == get_user_id(username)
           chat_id_int == PyInt(chat_id)
       IN /\ ev' = [EvBase EXCEPT !.handler = "chat_message", !.sid = c,
                                  !.username = username, !.user_id = user_id,
                                  !.ref = chat_id, !.text = text]
          /\ IF \/ Falsy(text) \/ Falsy(chat_id) \/ ~Truthy(user_id)
                \/ chat_id_int.err # ""
                \/ ~is_user_chat_member(chat_id_int.val, user_id)
             THEN /\ ret' = RetBase
                  /\ emitted' = <<>>
                  /\ UNCHANGED chat_messages
             ELSE LET r == create_chat_message(chat_id_int.val, user_id, text.s)
                  IN /\ StoreHasRoom(chat_messages)
                     /\ chat_messages' = r.rows
                     /\ ret' = [RetBase EXCEPT !.lastrowid = r.lastrowid]
                     /\ emitted' =
                          <<Emit("chat_message", ToRoom(ChatRoom(chat_id_int.val)),
                                 [Payload EXCEPT !.id = r.lastrowid, !.username = username,
                                                 !.text = text.s], 0)>>
    /\ UNCHANGED <<users, chats, channels, chat_members, personal_messages,
                   channel_messages, ONLINE_USER_IDS, conn>>

\* @sio.on('channel_message')
channel_message(c, channel_id, text) ==
    /\ conn[c].live
    /\ LET username == conn[c].username
           user_id == get_user_id(username)
           channel_id_int == PyInt(channel_id)
       IN /\ ev' = [EvBase EXCEPT !.handler = "channel_message", !.sid = c,
                                  !.username = username, !.user_id = user_id,
                                  !.ref = channel_id, !.text = text]
          /\ IF \/ Falsy(text) \/ Falsy(channel_id) \/ ~Truthy(user_id)
                \/ channel_id_int.err # ""
                \/ ~is_user_channel_admin(user_id, channel_id_int.val)
             THEN /\ ret' = RetBase
                  /\ emitted' = <<>>
                  /\ UNCHANGED channel_messages
             ELSE LET r == create_channel_message(channel_id_int.val, user_id, text.s)
                  IN /\ StoreHasRoom(channel_messages)
                     /\ channel_messages' = r.rows
                     /\ ret' = [RetBase EXCEPT !.lastrowid = r.lastrowid]
                     /\ emitted' =
                          <<Emit("channel_message", ToRoom(ChannelRoom(channel_id_int.val)),
                                 [Payload EXCEPT !.id = r.lastrowid, !.username = username,
                                                 !.text = text.s], 0)>>
    /\ UNCHANGED <<users, chats, channels, chat_members, personal_messages,
                   chat_messages, ONLINE_USER_IDS, conn>>

----------------------------------------------------------------------------
(* The message handlers step by step.  Flask-SocketIO starts every event
   handler as a task of its own (a thread under the threading server that
   sio.run(app, debug=True) uses when neither eventlet nor gevent is
   installed), and nothing in main.py holds a lock from the INSERT's commit to
   the emit: handlers of different connections interleave between the two.
   conn[c].pending is the emit a handler of connection c has yet to make. *)

\* personal_message up to `message_id = db.create_personal_message(...)`
personal_message_commit(c, room, text) ==
    /\ conn[c].live
    /\ conn[c].pending = <<>>
    /\ LET username == conn[c].username
           self_id == get_user_id(username)
           parts == Split(room.s)
           user1_id == PyInt(JStr(parts[1]))
           user2_id == PyInt(JStr(parts[2]))
       IN /\ ~(Falsy(text) \/ username = NoUsername \/ Falsy(room))
          /\ Len(parts) = 2
          /\ user1_id.err = "" /\ user2_id.err = ""
          /\ LET r == create_personal_message(
                          self_id, OtherUserId(self_id, user1_id.val, user2_id.val), text.s)
             IN /\ StoreHasRoom(personal_messages)
                /\ personal_messages' = r.rows
                /\ ret' = [RetBase EXCEPT !.lastrowid = r.lastrowid, !.end = "commit"]
                /\ conn' = [conn EXCEPT ![c].pending =
                              <<Emit("personal_message", ToRoom(room.s),
                                     [Payload EXCEPT !.id = r.lastrowid,
                                                     !.username = username,
                                                     !.text = text.s], 0)>>]
          /\ ev' = [EvBase EXCEPT !.handler = "personal_message", !.sid = c,
                                  !.username = username, !.user_id = self_id,
                                  !.room = room, !.text = text]
    /\ emitted' = <<>>
    /\ UNCHANGED <<users, chats, channels, chat_members, chat_messages, channel_messages,
                   ONLINE_USER_IDS>>

\* chat_message up to `message_id = db.create_chat_message(...)`
chat_message_commit(c, chat_id, text) ==
    /\ conn[c].live
    /\ conn[c].pending = <<>>
    /\ LET username == conn[c].username
           user_id == get_user_id(username)
           chat_id_int == PyInt(chat_id)
       IN /\ ~(Falsy(text) \/ Falsy(chat_id) \/ ~Truthy(user_id))
          /\ chat_id_int.err = ""
          /\ is_user_chat_member(chat_id_int.val, user_id)
          /\ LET r == create_chat_message(chat_id_int.val, user_id, text.s)
             IN /\ StoreHasRoom(chat_messages)
                /\ chat_messages' = r.rows
                /\ ret' = [RetBase EXCEPT !.lastrowid = r.lastrowid, !.end = "commit"]
                /\ conn' = [conn EXCEPT ![c].pending =
                              <<Emit("chat_message", ToRoom(ChatRoom(chat_id_int.val)),
                                     [Payload EXCEPT !.id = r.lastrowid,
                                                     !.username = username,
                                                     !.text = text.s], 0)>>]
          /\ ev' = [EvBase EXCEPT !.handler = "chat_message", !.sid = c,
                                  !.username = username, !.user_id = user_id,
                                  !.ref = chat_id, !.text = text]
    /\ emitted' = <<>>
    /\ UNCHANGED <<users, chats, channels, chat_members, personal_messages,
                   channel_messages, ONLINE_USER_IDS>>

\* channel_message up to `message_id = db.create_channel_message(...)`
channel_message_commit(c, channel_id, text) ==
    /\ conn[c].live
    /\ conn[c].pending = <<>>
    /\ LET username == conn[c].username
           user_id == get_user_id(username)
           channel_id_int == PyInt(channel_id)
       IN /\ ~(Falsy(text) \/ Falsy(channel_id) \/ ~Truthy(user_id))
          /\ channel_id_int.err = ""
          /\ is_user_channel_admin(user_id, channel_id_int.val)
          /\ LET r == create_channel_message(channel_id_int.val, user_id, text.s)
             IN /\ StoreHasRoom(channel_messages)
                /\ channel_messages' = r.rows
                /\ ret' = [RetBase EXCEPT !.lastrowid = r.lastrowid, !.end = "commit"]
                /\ conn' = [conn EXCEPT ![c].pending =
                              <<Emit("channel_message",
                                     ToRoom(ChannelRoom(channel_id_int.val)),
                                     [Payload EXCEPT !.id = r.lastrowid,
                                                     !.username = username,
                                                     !.text = text.s], 0)>>]
          /\ ev' = [EvBase EXCEPT !.handler = "channel_message", !.sid = c,
                                  !.username = username, !.user_id = user_id,
                                  !.ref = channel_id, !.text = text]
    /\ emitted' = <<>>
    /\ UNCHANGED <<users, chats, channels, chat_members, personal_messages,
                   chat_messages, ONLINE_USER_IDS>>

\* The rest of the handler: the SELECT of the timestamp and the emit
message_emit(c) ==
    /\ conn[c].live
    /\ conn[c].pending # <<>>
    /\ emitted' = conn[c].pending
    /\ conn' = [conn EXCEPT ![c].pending = <<>>]
    /\ ev' = [EvBase EXCEPT !.handler = conn[c].pending[1].event, !.sid = c,
                            !.username = conn[c].username,
                            !.user_id = get_user_id(conn[c].username)]
    /\ ret' = [RetBase EXCEPT !.lastrowid = conn[c].pending[1].payload.id]
    /\ UNCHANGED <<db_vars, ONLINE_USER_IDS>>

----------------------------------------------------------------------------
(* The handlers when the store fails: cursor.execute or connection.commit of
   the Database method raises sqlite3.Error (file locked, disk full).  No
   handler wraps its store call in try/except and main.py registers no
   on_error handler, so the exception leaves the handler before its emit. *)

\* What every handler leaves behind when its write raises
StoreWriteRaises(e) ==
    /\ ev' = e
    /\ ret' = [RetBase EXCEPT !.end = "raise", !.exc = "sqlite3.Error"]
    /\ emitted' = <<>>
    /\ UNCHANGED <<db_vars, ONLINE_USER_IDS, conn>>

\* personal_message whose db.create_personal_message raises
personal_message_write_fails(c, room, text) ==
    /\ conn[c].live
    /\ LET username == conn[c].username
           parts == Split(room.s)
       IN /\ ~(Falsy(text) \/ username = NoUsername \/ Falsy(room))
          /\ Len(parts) = 2
          /\ PyInt(JStr(parts[1])).err = "" /\ PyInt(JStr(parts[2])).err = ""
          /\ StoreWriteRaises([EvBase EXCEPT !.handler = "personal_message", !.sid = c,
                                             !.username = username,
                                             !.user_id = get_user_id(username),
                                             !.room = room, !.text = text])

\* chat_message whose db.create_chat_message raises
chat_message_write_fails(c, chat_id, text) ==
    /\ conn[c].live
    /\ LET username == conn[c].username
           user_id == get_user_id(username)
       IN /\ ~(Falsy(text) \/ Falsy(chat_id) \/ ~Truthy(user_id))
          /\ PyInt(chat_id).err = ""
          /\ is_user_chat_member(PyInt(chat_id).val, user_id)
          /\ StoreWriteRaises([EvBase EXCEPT !.handler = "chat_message", !.sid = c,
                                             !.username = username, !.user_id = user_id,
                                             !.ref = chat_id, !.text = text])

\* channel_message whose db.create_channel_message raises
channel_message_write_fails(c, channel_id, text) ==
    /\ conn[c].live
    /\ LET username == conn[c].username
           user_id == get_user_id(username)
       IN /\ ~(Falsy(text) \/ Falsy(channel_id) \/ ~Truthy(user_id))
          /\ PyInt(channel_id).err = ""
          /\ is_user_channel_admin(user_id, PyInt(channel_id).val)
          /\ StoreWriteRaises([EvBase EXCEPT !.handler = "channel_message", !.sid = c,
                                             !.username = username, !.user_id = user_id,
                                             !.ref = channel_id, !.text = text])

\* delete_message whose db.delete_<scope>_message raises
delete_message_write_fails(c, scope, id, message_id, ref) ==
    /\ conn[c].live
    /\ LET username == conn[c].username
           user_id == get_user_id(username)
       IN /\ username # NoUsername
          /\ Truthy(user_id)
          /\ PyInt(PyOr(id, message_id)).err = ""
          /\ \/ scope = "personal"
             \/ scope \in {"chat", "channel"} /\ PyInt(ref).err = ""
          /\ StoreWriteRaises([EvBase EXCEPT !.handler = "delete_message", !.sid = c,
                                             !.username = username, !.user_id = user_id,
                                             !.scope = scope, !.id = id,
                                             !.message_id = message_id, !.ref = ref])

----------------------------------------------------------------------------
(* main.py: HTTP routes that write the tables the handlers read.  The session
   of an HTTP request carries the username of a signed-in user. *)

\* /signup -> Database.signup; a rejected password returns before the INSERT
\* like the taken name does.
route_signup(name) ==
    /\ ev' = [EvBase EXCEPT !.handler = "signup", !.username = name]
    /\ emitted' = <<>>
    /\ IF name \in get_all_usernames
       THEN /\ ret' = RetBase
            /\ UNCHANGED users
       ELSE /\ Cardinality(users) < MaxUsers
            /\ users' = users \cup {[id |-> NextRowId(users), name |-> name]}
            /\ ret' = [RetBase EXCEPT !.ok = TRUE, !.lastrowid = NextRowId(users)]
    /\ UNCHANGED <<chats, channels, chat_members, personal_messages, chat_messages,
                   channel_messages, ONLINE_USER_IDS, conn>>

\* /create_chat -> Database.create_chat, Database.add_user_to_chat
route_create_chat(username) ==
    /\ username \in get_all_usernames
    /\ NextRowId(chats) \in ChatIdInputs
    /\ LET creator_id == get_user_id(username)
           chat_id == NextRowId(chats)
       IN /\ chats' = chats \cup {[id |-> chat_id, admin_id |-> creator_id]}
          /\ chat_members' = chat_members \cup {[chat_id |-> chat_id, user_id |-> creator_id]}
          /\ ev' = [EvBase EXCEPT !.handler = "create_chat", !.username = username,
                                  !.user_id = creator_id]
          /\ ret' = [RetBase EXCEPT !.ok = TRUE, !.lastrowid = chat_id]
    /\ emitted' = <<>>
    /\ UNCHANGED <<users, channels, personal_messages, chat_messages, channel_messages,
                   ONLINE_USER_IDS, conn>>

\* /add_chat_member (POST) -> Database.add_user_to_chat; chat_id is
\* session['chat_id'], which /home/chats/<chat_id> sets to any id asked for.
route_add_chat_member(username, name, chat_id) ==
    /\ username \in get_all_usernames
    /\ LET user_id == get_user_id(name)
       IN /\ ev' = [EvBase EXCEPT !.handler = "add_chat_member", !.username = username,
                                  !.user_id = user_id, !.ref = JInt(chat_id)]
          /\ IF ~Truthy(user_id)
             THEN /\ ret' = RetBase
                  /\ UNCHANGED chat_members
             ELSE /\ chat_members' =
                       chat_members \cup {[chat_id |-> chat_id, user_id |-> user_id]}
                  /\ ret' = [RetBase EXCEPT !.ok = TRUE]
    /\ emitted' = <<>>
    /\ UNCHANGED <<users, chats, channels, personal_messages, chat_messages,
                   channel_messages, ONLINE_USER_IDS, conn>>

\* /delete_chat -> Database.delete_chat
route_delete_chat(username, chat_id) ==
    /\ username \in get_all_usernames
    /\ LET self_id == get_user_id(username)
           chat_id_int == PyInt(chat_id)
           r == delete_chat(chat_id_int.val, self_id)
       IN /\ ev' = [EvBase EXCEPT !.handler = "delete_chat", !.username = username,
                                  !.user_id = self_id, !.ref = chat_id]
          /\ IF chat_id_int.err # ""
             THEN /\ ret' = RetBase
                  /\ emitted' = <<>>
                  /\ UNCHANGED <<chats, chat_members, chat_messages>>
             ELSE /\ chats' = r.chats
                  /\ chat_members' = r.chat_members
                  /\ chat_messages' = r.chat_messages
                  /\ ret' = [RetBase EXCEPT !.ok = r.ok]
                  /\ emitted' =
                       IF r.ok
                       THEN <<Emit("system", ToRoom(ChatRoom(chat_id_int.val)),
                                   [Payload EXCEPT !.message = "chat_deleted",
                                                   !.ref = chat_id_int.val], 0)>>
                       ELSE <<>>
    /\ UNCHANGED <<users, channels, personal_messages, channel_messages,
                   ONLINE_USER_IDS, conn>>

\* /create_channel -> Database.create_channel
route_create_channel(username) ==
    /\ username \in get_all_usernames
    /\ NextRowId(channels) \in ChannelIdInputs
    /\ LET admin_id == get_user_id(username)
           channel_id == NextRowId(channels)
       IN /\ channels' = channels \cup {[id |-> channel_id, admin_id |-> admin_id]}
          /\ ev' = [EvBase EXCEPT !.handler = "create_channel", !.username = username,
                                  !.user_id = admin_id]
          /\ ret' = [RetBase EXCEPT !.ok = TRUE, !.lastrowid = channel_id]
    /\ emitted' = <<>>
    /\ UNCHANGED <<users, chats, chat_members, personal_messages, chat_messages,
                   channel_messages, ONLINE_USER_IDS, conn>>

\* /delete_channel -> Database.delete_channel
route_delete_channel(username, channel_id) ==
    /\ username \in get_all_usernames
    /\ LET self_id == get_user_id(username)
           channel_id_int == PyInt(channel_id)
           r == delete_channel(channel_id_int.val, self_id)
       IN /\ ev' = [EvBase EXCEPT !.handler = "delete_channel", !.username = username,
                                  !.user_id = self_id, !.ref = channel_id]
          /\ IF channel_id_int.err # ""
             THEN /\ ret' = RetBase
                  /\ emitted' = <<>>
                  /\ UNCHANGED <<channels, channel_messages>>
             ELSE /\ channels' = r.channels
                  /\ channel_messages' = r.channel_messages
                  /\ ret' = [RetBase EXCEPT !.ok = r.ok]
                  /\ emitted' =
                       IF r.ok
                       THEN <<Emit("system", ToRoom(ChannelRoom(channel_id_int.val)),
                                   [Payload EXCEPT !.message = "channel_deleted",
                                                   !.ref = channel_id_int.val], 0)>>
                       ELSE <<>>
    /\ UNCHANGED <<users, chats, chat_members, personal_messages, chat_messages,
                   ONLINE_USER_IDS, conn>>

----------------------------------------------------------------------------
(* db.py called directly: the message operations of the Database object, with
   any arguments (the store does not check who calls it). *)

UserIds == 1..MaxUsers
PeerIds == {1, 2}
MsgIds == 1..(MaxMsgs + 1)

Db_create_personal_message(sender_id, to_user_id, content) ==
    /\ StoreHasRoom(personal_messages)
    /\ LET r == create_personal_message(sender_id, to_user_id, content)
       IN /\ personal_messages' = r.rows
          /\ ret' = [RetBase EXCEPT !.lastrowid = r.lastrowid]
    /\ ev' = [EvBase EXCEPT !.handler = "db.create_personal_message",
                            !.user_id = sender_id, !.ref = JInt(to_user_id)]
    /\ UNCHANGED <<users, chats, channels, chat_members, chat_messages, channel_messages,
                   ONLINE_USER_IDS, conn, emitted>>

Db_create_chat_message(chat_id, sender_id, content) ==
    /\ StoreHasRoom(chat_messages)
    /\ LET r == create_chat_message(chat_id, sender_id, content)
       IN /\ chat_messages' = r.rows
          /\ ret' = [RetBase EXCEPT !.lastrowid = r.lastrowid]
    /\ ev' = [EvBase EXCEPT !.handler = "db.create_chat_message",
                            !.user_id = sender_id, !.ref = JInt(chat_id)]
    /\ UNCHANGED <<users, chats, channels, chat_members, personal_messages,
                   channel_messages, ONLINE_USER_IDS, conn, emitted>>

Db_create_channel_message(channel_id, sender_id, content) ==
    /\ StoreHasRoom(channel_messages)
    /\ LET r == create_channel_message(channel_id, sender_id, content)
       IN /\ channel_messages' = r.rows
          /\ ret' = [RetBase EXCEPT !.lastrowid = r.lastrowid]
    /\ ev' = [EvBase EXCEPT !.handler = "db.create_channel_message",
                            !.user_id = sender_id, !.ref = JInt(channel_id)]
    /\ UNCHANGED <<users, chats, channels, chat_members, personal_messages,
                   chat_messages, ONLINE_USER_IDS, conn, emitted>>

Db_delete_personal_message(message_id, owner_id) ==
    /\ LET r == delete_personal_message(message_id, owner_id)
       IN /\ personal_messages' = r.rows
          /\ ret' = [RetBase EXCEPT !.ok = r.ok]
    /\ ev' = [EvBase EXCEPT !.handler = "db.delete_personal_message",
                            !.user_id = owner_id, !.id = JInt(message_id)]
    /\ UNCHANGED <<users, chats, channels, chat_members, chat_messages, channel_messages,
                   ONLINE_USER_IDS, conn, emitted>>

Db_delete_chat_message(message_id, owner_id) ==
    /\ LET r == delete_chat_message(message_id, owner_id)
       IN /\ chat_messages' = r.rows
          /\ ret' = [RetBase EXCEPT !.ok = r.ok]
    /\ ev' = [EvBase EXCEPT !.handler = "db.delete_chat_message",
                            !.user_id = owner_id, !.id = JInt(message_id)]
    /\ UNCHANGED <<users, chats, channels, chat_members, personal_messages,
                   channel_messages, ONLINE_USER_IDS, conn, emitted>>

Db_delete_channel_message(message_id, owner_id) ==
    /\ LET r == delete_channel_message(message_id, owner_id)
       IN /\ channel_messages' = r.rows
          /\ ret' = [RetBase EXCEPT !.ok = r.ok]
    /\ ev' = [EvBase EXCEPT !.handler = "db.delete_channel_message",
                            !.user_id = owner_id, !.id = JInt(message_id)]
    /\ UNCHANGED <<users, chats, channels, chat_members, personal_messages,
                   chat_messages, ONLINE_USER_IDS, conn, emitted>>

----------------------------------------------------------------------------
(* Specifications.  Spec is the whole program.  The others are the program
   restricted to the operations on one part of its state (a handler outside a
   part neither reads nor writes what the part's claims are about). *)

\* A new user takes the next unused name of the pool (names are
\* interchangeable); a taken name is asked for again as well.
Signup == \E i \in 1..(Cardinality(users) + 1) : i <= MaxUsers /\ route_signup(NamePool[i])
\* A client that signed in or up (its session names a user row), or did not
Connect(S) ==
    \E c \in S, username \in get_all_usernames \cup {NoUsername} : handle_connect(c, username)
\* A client whose session cookie outlived the users table it was issued
\* against (DATABASE_PATH names a new file): the name resolves to no row.
ConnectStale(S) ==
    \E c \in S, username \in Names \ get_all_usernames : handle_connect(c, username)
Disconnect(S) == \E c \in S : handle_disconnect(c)
Join == \E c \in Sids, room \in JoinRoomInputs : handle_join(c, room)
Leave == \E c \in Sids, room \in JoinRoomInputs : handle_leave(c, room)
Typing == \E c \in Sids, room \in TypingRoomInputs : handle_typing(c, room)
PersonalMessage(S) ==
    \E c \in S, d \in PersonalInputs : personal_message(c, d[1], d[2])
ChatMessage(S) ==
    \E c \in S, d \in ScopedInputs : chat_message(c, d[1], d[2])
ChannelMessage(S) ==
    \E c \in S, d \in ScopedInputs : channel_message(c, d[1], d[2])
DeleteMessage(S, scope) ==
    \E c \in S, d \in DeleteInputs : delete_message(c, scope, d[1], d[2], d[3])
CreateChat == \E username \in Names : route_create_chat(username)
AddChatMember ==
    \E username \in Names, name \in Names, chat_id \in ChatIdInputs :
        route_add_chat_member(username, name, chat_id)
DeleteChat == \E username \in Names, chat_id \in RefInputs : route_delete_chat(username, chat_id)
CreateChannel == \E username \in Names : route_create_channel(username)
DeleteChannel ==
    \E username \in Names, channel_id \in RefInputs : route_delete_channel(username, channel_id)

\* One well-formed message of each scope (pair room "1:2", chat 1, channel 1)
SendMessage(S) ==
    \E c \in S :
        \/ personal_message(c, JStr(Room_1_2), JStr(Hi))
        \/ chat_message(c, JInt(1), JStr(Hi))
        \/ channel_message(c, JInt(1), JStr(Hi))

DbCreate ==
    \/ \E s \in UserIds, t \in PeerIds : Db_create_personal_message(s, t, Hi)
    \/ \E s \in UserIds, t \in ChatIdInputs : Db_create_chat_message(t, s, Hi)
    \/ \E s \in UserIds, t \in ChannelIdInputs : Db_create_channel_message(t, s, Hi)
DbDelete ==
    \/ \E m \in MsgIds, o \in UserIds : Db_delete_personal_message(m, o)
    \/ \E m \in MsgIds, o \in UserIds : Db_delete_chat_message(m, o)
    \/ \E m \in MsgIds, o \in UserIds : Db_delete_channel_message(m, o)

Next ==
    \/ Signup \/ Connect(Sids) \/ Disconnect(Sids) \/ Join \/ Leave \/ Typing
    \/ PersonalMessage(Sids) \/ ChatMessage(Sids) \/ ChannelMessage(Sids)
    \/ DeleteMessage(Sids, "personal") \/ DeleteMessage(Sids, "chat")
    \/ DeleteMessage(Sids, "channel") \/ DeleteMessage(Sids, "other")
    \/ CreateChat \/ AddChatMember \/ DeleteChat \/ CreateChannel \/ DeleteChannel
Spec == Init /\ [][Next]_vars

NextPresence == Signup \/ Connect(Sids) \/ Disconnect(Sids) \/ Join \/ Leave \/ Typing
SpecPresence == Init /\ [][NextPresence]_vars

\* Connections of sessions of every kind
NextSession == Signup \/ Connect(Sids) \/ ConnectStale(Sids) \/ Disconnect(Sids)
SpecSession == Init /\ [][NextSession]_vars

NextPersonal ==
    \/ Signup \/ Connect(MsgSids) \/ Disconnect(MsgSids)
    \/ PersonalMessage(MsgSids) \/ DeleteMessage(MsgSids, "personal")
SpecPersonal == Init /\ [][NextPersonal]_vars

NextChat ==
    \/ Signup \/ Connect(MsgSids) \/ Disconnect(MsgSids)
    \/ CreateChat \/ AddChatMember \/ DeleteChat
    \/ ChatMessage(MsgSids) \/ DeleteMessage(MsgSids, "chat")
SpecChat == Init /\ [][NextChat]_vars

NextChannel ==
    \/ Signup \/ Connect(MsgSids) \/ Disconnect(MsgSids)
    \/ CreateChannel \/ DeleteChannel
    \/ ChannelMessage(MsgSids) \/ DeleteMessage(MsgSids, "channel")
SpecChannel == Init /\ [][NextChannel]_vars

\* delete_message payloads (id, message_id, peer_id / chat_id / channel_id)
\* where rows of every scope are present: an id, an id sent as text, the
\* message_id fallback, and an id or a target that does not parse.
DeleteAnyScopeInputs ==
    {<<JInt(1), JNone, JInt(1)>>, <<JStr(<<"2">>), JNone, JInt(1)>>,
     <<JNone, JInt(1), JStr(<<"2">>)>>, <<JStr(<<"x">>), JNone, JInt(1)>>,
     <<JInt(1), JNone, JStr(<<"x">>)>>}

DeleteAnyScope(S) ==
    \E c \in S :
        \/ \E d \in DeleteAnyScopeInputs, scope \in {"personal", "chat", "channel"} :
               delete_message(c, scope, d[1], d[2], d[3])
        \/ delete_message(c, "other", JInt(1), JNone, JInt(1))

\* The first user creates the chat and the channel
CreateByFirst == route_create_chat(NamePool[1]) \/ route_create_channel(NamePool[1])

\* Deletion in every scope, with rows in all three logs
NextDelete ==
    \/ Signup \/ Connect(MsgSids) \/ Disconnect(MsgSids)
    \/ CreateByFirst \/ SendMessage(MsgSids)
    \/ DeleteAnyScope(MsgSids)
SpecDelete == Init /\ [][NextDelete]_vars

\* Well-formed messages of every scope, sent from two connections whose
\* handlers run side by side
MessageCommit ==
    \E c \in Sids :
        \/ personal_message_commit(c, JStr(Room_1_2), JStr(Hi))
        \/ chat_message_commit(c, JInt(1), JStr(Hi))
        \/ channel_message_commit(c, JInt(1), JStr(Hi))
MessageEmit == \E c \in Sids : message_emit(c)

NextInterleave ==
    \/ Signup \/ Connect(Sids) \/ CreateByFirst \/ AddChatMember
    \/ MessageCommit \/ MessageEmit
SpecInterleave == Init /\ [][NextInterleave]_vars

\* A store write of any message or delete handler fails
WriteFails(S) ==
    \E c \in S :
        \/ personal_message_write_fails(c, JStr(Room_1_2), JStr(Hi))
        \/ chat_message_write_fails(c, JInt(1), JStr(Hi))
        \/ channel_message_write_fails(c, JInt(1), JStr(Hi))
        \/ \E scope \in {"personal", "chat", "channel"} :
               delete_message_write_fails(c, scope, JInt(1), JNone, JInt(1))

\* The handlers of every scope over a store whose writes may fail
NextStoreFailure ==
    \/ Signup \/ Connect(MsgSids) \/ Disconnect(MsgSids) \/ CreateByFirst
    \/ SendMessage(MsgSids) \/ DeleteAnyScope(MsgSids) \/ WriteFails(MsgSids)
SpecStoreFailure == Init /\ [][NextStoreFailure]_vars

\* Personal messages and their deletion among two connections and their rooms
NextNotice ==
    \/ Signup \/ Connect(Sids) \/ Disconnect(Sids) \/ Join
    \/ PersonalMessage(MsgSids) \/ DeleteMessage(MsgSids, "personal")
SpecNotice == Init /\ [][NextNotice]_vars

NextDb == DbCreate \/ DbDelete
SpecDb == Init /\ [][NextDb]_vars

----------------------------------------------------------------------------
(* Claims *)

HasEvent(es, event) == \E i \in 1..Len(es) : es[i].event = event

\* C1: a user with at least one live connection is in the Presence Registry
\* (so a user with two connections stays online until both have closed).
C1_LiveUserIsOnline ==
    \A c \in Sids :
        conn[c].live => \E u \in users : u.name = conn[c].username /\ u.id \in ONLINE_USER_IDS

\* C2: a chat_message event from a user who has no membership row for the
\* chat it names adds no row to chat_messages and emits no chat_message.
C2_NonMemberChatMessageDropped ==
    [][(/\ ev'.handler = "chat_message"
        /\ ~\E m \in chat_members :
               /\ PyInt(ev'.ref).err = ""
               /\ m.chat_id = PyInt(ev'.ref).val
               /\ m.user_id = ev'.user_id)
       => /\ chat_messages' = chat_messages
          /\ ~HasEvent(emitted', "chat_message")]_vars

\* C2 witness: a non-member sent a well-formed chat_message to an existing
\* chat that has members, and nothing was emitted.
C2_Witness ==
    /\ ev.handler = "chat_message"
    /\ ~Falsy(ev.text)
    /\ PyInt(ev.ref).err = ""
    /\ \E ch \in chats : ch.id = PyInt(ev.ref).val
    /\ \E m \in chat_members : m.chat_id = PyInt(ev.ref).val
    /\ ~\E m \in chat_members : m.chat_id = PyInt(ev.ref).val /\ m.user_id = ev.user_id
    /\ emitted = <<>>

\* C3: a channel_message event from a user who is not the admin of the channel
\* it names (also when no such channel exists) adds no row to
\* channel_messages and emits no channel_message.
C3_NonAdminChannelMessageDropped ==
    [][(/\ ev'.handler = "channel_message"
        /\ ~\E ch \in channels :
               /\ PyInt(ev'.ref).err = ""
               /\ ch.id = PyInt(ev'.ref).val
               /\ ch.admin_id = ev'.user_id)
       => /\ channel_messages' = channel_messages
          /\ ~HasEvent(emitted', "channel_message")]_vars

\* C3 witness: a user other than the admin sent a well-formed channel_message
\* to an existing channel, and nothing was emitted.
C3_Witness ==
    /\ ev.handler = "channel_message"
    /\ ~Falsy(ev.text)
    /\ PyInt(ev.ref).err = ""
    /\ \E ch \in channels : ch.id = PyInt(ev.ref).val /\ ch.admin_id # ev.user_id
    /\ emitted = <<>>

\* The two ids of a room string that is a pair of numerals; {} otherwise.
PairIds(room) ==
    IF room.t = "str" /\ Len(Split(room.s)) = 2
          /\ StrIsInt(Split(room.s)[1]) /\ StrIsInt(Split(room.s)[2])
    THEN {StrToInt(Split(room.s)[1]), StrToInt(Split(room.s)[2])}
    ELSE {}

\* C4: a personal_message whose sender is neither of the two ids of the room
\* pair persists no row and emits no personal_message.
C4_OutsiderPersonalMessageDropped ==
    [][(/\ ev'.handler = "personal_message"
        /\ PairIds(ev'.room) # {}
        /\ ev'.user_id \notin PairIds(ev'.room))
       => /\ personal_messages' = personal_messages
          /\ ~HasEvent(emitted', "personal_message")]_vars

\* What delete_*_message(id, owner) must do to a table: return true iff a row
\* with that id and sender existed, remove exactly that row, else nothing.
DeleteContract(before, after, message_id, owner_id, ok) ==
    LET own == {r \in before : r.id = message_id /\ r.sender_id = owner_id}
    IN /\ ok = (own # {})
       /\ ok => Cardinality(own) = 1 /\ after = before \ own
       /\ ~ok => after = before

\* C5: delete_personal_message, delete_chat_message and delete_channel_message
\* return true iff a row with the id and sender = owner existed, remove exactly
\* that row when they return true, and remove nothing when they return false.
C5_DeleteByOwnerOnly ==
    [][/\ ev'.handler = "db.delete_personal_message" =>
            DeleteContract(personal_messages, personal_messages',
                           ev'.id.n, ev'.user_id, ret'.ok)
       /\ ev'.handler = "db.delete_chat_message" =>
            DeleteContract(chat_messages, chat_messages', ev'.id.n, ev'.user_id, ret'.ok)
       /\ ev'.handler = "db.delete_channel_message" =>
            DeleteContract(channel_messages, channel_messages',
                           ev'.id.n, ev'.user_id, ret'.ok)]_vars

\* C5 witness: delete_chat_message was called with the id of a row of another
\* sender; it returned false and the row is still there.
C5_Witness ==
    /\ ev.handler = "db.delete_chat_message"
    /\ ~ret.ok
    /\ \E r \in chat_messages : r.id = ev.id.n /\ r.sender_id # ev.user_id

\* The events of a step that carry the given name
EventsNamed(es, event) == {i \in 1..Len(es) : es[i].event = event}

\* The other id of a pair of ids (the same id when the pair is u:u)
OtherOf(pair, self_id) ==
    IF pair = {self_id} THEN self_id ELSE CHOOSE x \in pair : x # self_id

\* C6: a personal_message with non-empty text from a user who is one of the
\* two ids of the room pair persists exactly one row, with sender = the user
\* and target = the other id, and emits exactly one personal_message event
\* carrying that row's id, the sender's username and the text.
C6_PersonalMessagePersistedAndBroadcast ==
    [][(/\ ev'.handler = "personal_message"
        /\ ~Falsy(ev'.text)
        /\ PairIds(ev'.room) # {}
        /\ ev'.user_id \in PairIds(ev'.room))
       => \E row \in personal_messages' :
            /\ row \notin personal_messages
            /\ personal_messages' = personal_messages \cup {row}
            /\ row.sender_id = ev'.user_id
            /\ row.to_user_id = OtherOf(PairIds(ev'.room), ev'.user_id)
            /\ row.content = ev'.text.s
            /\ Cardinality(EventsNamed(emitted', "personal_message")) = 1
            /\ \A i \in EventsNamed(emitted', "personal_message") :
                 /\ emitted'[i].payload.id = row.id
                 /\ emitted'[i].payload.username = ev'.username
                 /\ emitted'[i].payload.text = ev'.text.s]_vars

\* C6 witness: the user who is the second id of the pair sent a message; the
\* row has that user as sender and the first id as target, and was broadcast.
C6_Witness ==
    /\ ev.handler = "personal_message"
    /\ ev.room = JStr(Room_1_2)
    /\ ev.user_id = 2
    /\ HasEvent(emitted, "personal_message")
    /\ \E row \in personal_messages :
         row.id = ret.lastrowid /\ row.sender_id = 2 /\ row.to_user_id = 1

\* "<min(a,b)>:<max(a,b)>"
CanonicalPairRoom(a, b) ==
    IF a <= b THEN IntToStr(a) \o <<":">> \o IntToStr(b)
    ELSE IntToStr(b) \o <<":">> \o IntToStr(a)

\* C7: a personal_message between users a and b, sent with the room string
\* "a:b" or "b:a", is broadcast to the canonical pair room "<min>:<max>".
C7_BroadcastToCanonicalRoom ==
    \A i \in EventsNamed(emitted, "personal_message") :
      \A row \in personal_messages :
        (/\ ev.handler = "personal_message"
         /\ row.id = emitted[i].payload.id
         /\ ev.room.s \in {IntToStr(row.sender_id) \o <<":">> \o IntToStr(row.to_user_id),
                           IntToStr(row.to_user_id) \o <<":">> \o IntToStr(row.sender_id)})
        => emitted[i].to = ToRoom(CanonicalPairRoom(row.sender_id, row.to_user_id))

\* C8: the pair room is derived the same way from (u, v) and from (v, u), and
\* the room a personal message is broadcast to is the room the deletion
\* notice for the same two users is sent to.
C8_SameDerivationEverySite ==
    /\ \A u \in 1..(MaxUsers + 1), v \in 1..(MaxUsers + 1) :
         u # v => SortedPairRoom(u, v) = SortedPairRoom(v, u)
    /\ \A i \in EventsNamed(emitted, "personal_message") :
         (/\ ev.handler = "personal_message"
          /\ ev.user_id \in PairIds(ev.room))
         => emitted[i].to.room =
              SortedPairRoom(ev.user_id, OtherOf(PairIds(ev.room), ev.user_id))

\* C9: a channel_message with non-empty text from the admin of channel c
\* persists exactly one row with sender = the admin and target c, and emits
\* exactly one event, a channel_message to room "channel:<c>".
C9_AdminChannelMessage ==
    [][(/\ ev'.handler = "channel_message"
        /\ ~Falsy(ev'.text)
        /\ PyInt(ev'.ref).err = ""
        /\ \E ch \in channels : ch.id = PyInt(ev'.ref).val /\ ch.admin_id = ev'.user_id)
       => \E row \in channel_messages' :
            /\ row \notin channel_messages
            /\ channel_messages' = channel_messages \cup {row}
            /\ row.sender_id = ev'.user_id
            /\ row.channel_id = PyInt(ev'.ref).val
            /\ Len(emitted') = 1
            /\ emitted'[1].event = "channel_message"
            /\ emitted'[1].to = ToRoom(Str_channel \o IntToStr(PyInt(ev'.ref).val))
            /\ emitted'[1].payload.id = row.id]_vars

\* C9 witness: user 2, admin of channel 1, posted to it; the row and the
\* broadcast to "channel:1" are there.
C9_Witness ==
    /\ ev.handler = "channel_message"
    /\ ev.user_id = 2
    /\ \E ch \in channels : ch.id = 1 /\ ch.admin_id = 2
    /\ \E row \in channel_messages :
         row.id = ret.lastrowid /\ row.sender_id = 2 /\ row.channel_id = 1
    /\ Len(emitted) = 1
    /\ emitted[1].to = ToRoom(<<"c", "h", "a", "n", "n", "e", "l", ":", "1">>)

\* C10: a chat_message with non-empty text from any member of chat c, admin
\* or not, persists exactly one row with that sender and target c and emits
\* exactly one chat_message event, to room "chat:<c>".
C10_MemberChatMessage ==
    [][(/\ ev'.handler = "chat_message"
        /\ ~Falsy(ev'.text)
        /\ PyInt(ev'.ref).err = ""
        /\ \E m \in chat_members :
             m.chat_id = PyInt(ev'.ref).val /\ m.user_id = ev'.user_id)
       => \E row \in chat_messages' :
            /\ row \notin chat_messages
            /\ chat_messages' = chat_messages \cup {row}
            /\ row.sender_id = ev'.user_id
            /\ row.chat_id = PyInt(ev'.ref).val
            /\ Cardinality(EventsNamed(emitted', "chat_message")) = 1
            /\ \A i \in EventsNamed(emitted', "chat_message") :
                 /\ emitted'[i].to = ToRoom(Str_chat \o IntToStr(PyInt(ev'.ref).val))
                 /\ emitted'[i].payload.id = row.id]_vars

\* C10 witness: a member who is not the chat's admin posted to the chat, and
\* the message was persisted and broadcast.
C10_Witness ==
    /\ ev.handler = "chat_message"
    /\ HasEvent(emitted, "chat_message")
    /\ \E ch \in chats : ch.id = PyInt(ev.ref).val /\ ch.admin_id # ev.user_id
    /\ \E row \in chat_messages :
         row.id = ret.lastrowid /\ row.sender_id = ev.user_id
                                /\ row.chat_id = PyInt(ev.ref).val

\* The id a delete_message event asks for: `id`, or `message_id` when `id` is
\* absent; None when it does not parse.
AskedMsgId(e) ==
    IF Falsy(e.id) THEN PyInt(e.message_id).val ELSE PyInt(e.id).val

\* C11: when a user deletes a personal message they authored, through
\* delete_message with scope personal and a parseable peer_id p, the row is
\* removed and exactly one message_deleted event carrying the message id is
\* emitted, to the canonical pair room of (the user's id, p).
C11_AuthorDeleteBroadcastToPairRoom ==
    [][(/\ ev'.handler = "delete_message"
        /\ ev'.scope = "personal"
        /\ PyInt(ev'.ref).err = ""
        /\ \E row \in personal_messages :
             row.id = AskedMsgId(ev') /\ row.sender_id = ev'.user_id)
       => /\ personal_messages' =
               {row \in personal_messages : row.id # AskedMsgId(ev')}
          /\ Len(emitted') = 1
          /\ emitted'[1].event = "message_deleted"
          /\ emitted'[1].payload.id = AskedMsgId(ev')
          /\ emitted'[1].to =
               ToRoom(CanonicalPairRoom(ev'.user_id, PyInt(ev'.ref).val))]_vars

\* The log a delete_message of the given scope deletes from
ScopeLog(scope) ==
    IF scope = "personal" THEN personal_messages
    ELSE IF scope = "chat" THEN chat_messages
    ELSE IF scope = "channel" THEN channel_messages
    ELSE {}

\* C12: a delete_message event, of any scope, whose message id is not in the
\* scope's log, or is the id of a message another user authored, leaves the
\* three message logs unchanged and emits no message_deleted event.
C12_FailedDeleteHasNoEffect ==
    [][(/\ ev'.handler = "delete_message"
        /\ ~\E row \in ScopeLog(ev'.scope) :
               row.id = AskedMsgId(ev') /\ row.sender_id = ev'.user_id)
       => /\ personal_messages' = personal_messages
          /\ chat_messages' = chat_messages
          /\ channel_messages' = channel_messages
          /\ ~HasEvent(emitted', "message_deleted")]_vars

\* C12 witness: a user asked to delete, in scope chat, the id of a chat
\* message another user authored, while the personal log holds a message of
\* the same id that the user did author; nothing was deleted or emitted.
C12_Witness ==
    /\ ev.handler = "delete_message"
    /\ ev.scope = "chat"
    /\ PyInt(ev.ref).err = ""
    /\ \E row \in chat_messages :
         row.id = AskedMsgId(ev) /\ row.sender_id # ev.user_id
    /\ \E row \in personal_messages :
         row.id = AskedMsgId(ev) /\ row.sender_id = ev.user_id
    /\ emitted = <<>>

\* C13: a connect attempt that carries no session identity is rejected: the
\* connection is not established and joins no room, the Presence Registry is
\* unchanged, and no event (presence, system or other) is emitted.
C13_ConnectWithoutSessionRejected ==
    [][(ev'.handler = "connect" /\ ev'.username = NoUsername)
       => /\ ret'.end = "reject"
          /\ ~conn'[ev'.sid].live
          /\ conn'[ev'.sid].rooms = {}
          /\ conn' = conn
          /\ ONLINE_USER_IDS' = ONLINE_USER_IDS
          /\ emitted' = <<>>]_vars

\* C13 witness: a connect without session identity was rejected while another
\* connection is live and its user is online.
C13_Witness ==
    /\ ev.handler = "connect"
    /\ ev.username = NoUsername
    /\ ret.end = "reject"
    /\ ~conn[ev.sid].live
    /\ \E c \in Sids : conn[c].live
    /\ ONLINE_USER_IDS # {}

\* C14: whenever a connection reaches Connected (the connect handler did not
\* reject it), right afterwards its user id is in the Presence Registry, the
\* connection is in room "user:<id>", and a presence event with that user id
\* and online = true was emitted to all connections; also when the session
\* name resolves to no user row.
C14_ConnectedIsPresent ==
    (ev.handler = "connect" /\ ret.end # "reject")
    => /\ conn[ev.sid].live
       /\ ev.user_id # None
       /\ ev.user_id \in ONLINE_USER_IDS
       /\ (Str_user \o IntToStr(ev.user_id)) \in conn[ev.sid].rooms
       /\ \E i \in EventsNamed(emitted, "presence") :
            /\ emitted[i].to = ToAll
            /\ emitted[i].payload.user_id = ev.user_id
            /\ emitted[i].payload.online

\* The connections of a user: the live ones whose session names the user
LiveConnsOf(user_id) ==
    {c \in Sids : conn[c].live /\ \E u \in users : u.id = user_id /\ u.name = conn[c].username}

\* C15: after any sequence of connects and disconnects, a user with no live
\* connection is not in the Presence Registry.
C15_OfflineUserNotInRegistry ==
    \A user_id \in ONLINE_USER_IDS : LiveConnsOf(user_id) # {}

\* C15 witness: the only connection of a user was closed and the user left the
\* registry, while another user is still connected and online.
C15_Witness ==
    /\ ev.handler = "disconnect"
    /\ ev.user_id # None
    /\ LiveConnsOf(ev.user_id) = {}
    /\ ev.user_id \notin ONLINE_USER_IDS
    /\ \E v \in ONLINE_USER_IDS : LiveConnsOf(v) # {}

\* The event carries an identifier that does not parse: a room that is not a
\* pair of numerals, a chat or channel id that is not a numeral, a message id
\* (or, for scopes chat and channel, a target id) that is not one.
Unparseable(e) ==
    \/ /\ e.handler = "personal_message"
       /\ ~Falsy(e.room)
       /\ PairIds(e.room) = {}
    \/ /\ e.handler \in {"chat_message", "channel_message"}
       /\ ~Falsy(e.ref)
       /\ PyInt(e.ref).err # ""
    \/ /\ e.handler = "delete_message"
       /\ \/ PyInt(IF Falsy(e.id) THEN e.message_id ELSE e.id).err # ""
          \/ e.scope \in {"chat", "channel"} /\ PyInt(e.ref).err # ""

\* C16: a personal_message, chat_message, channel_message or delete_message
\* event whose room pair, chat id, channel id or message id cannot be parsed is
\* dropped: the handler ends without raising, no row is created or deleted and
\* no event is emitted; also when the room of a personal_message does not
\* split into exactly two parts.
C16_UnparseableDropped ==
    [][(/\ ev'.handler \in {"personal_message", "chat_message",
                            "channel_message", "delete_message"}
        /\ Unparseable(ev'))
       => /\ ret'.end = "return"
          /\ personal_messages' = personal_messages
          /\ chat_messages' = chat_messages
          /\ channel_messages' = channel_messages
          /\ emitted' = <<>>]_vars

\* The ids of the rows of the log an event name belongs to
LogIds(event) ==
    IF event = "personal_message" THEN {r.id : r \in personal_messages}
    ELSE IF event = "chat_message" THEN {r.id : r \in chat_messages}
    ELSE IF event = "channel_message" THEN {r.id : r \in channel_messages}
    ELSE {}

\* C17: within one room, personal_message / chat_message / channel_message
\* events are broadcast in the order their rows were committed, for every
\* interleaving of handlers of different connections: when the event of a row
\* is broadcast, no row of the same log and room committed before it (rowids
\* grow with every commit while nothing is deleted) still waits for its
\* broadcast.
C17_BroadcastOrderIsCommitOrder ==
    \A i \in 1..Len(emitted) :
      \A c \in Sids :
        (/\ emitted[i].event \in {"personal_message", "chat_message", "channel_message"}
         /\ conn[c].pending # <<>>
         /\ conn[c].pending[1].event = emitted[i].event
         /\ conn[c].pending[1].to = emitted[i].to)
        => conn[c].pending[1].payload.id > emitted[i].payload.id

\* C18: in every reachable state of the store, the sender of every persisted
\* message is the id of a user row, and its target is the id of an existing
\* row: a user for a personal message, a chat for a chat message, a channel
\* for a channel message.
C18_MessagesReferenceExistingRows ==
    LET user_ids == {u.id : u \in users} IN
    /\ \A r \in personal_messages : r.sender_id \in user_ids /\ r.to_user_id \in user_ids
    /\ \A r \in chat_messages :
         r.sender_id \in user_ids /\ r.chat_id \in {ch.id : ch \in chats}
    /\ \A r \in channel_messages :
         r.sender_id \in user_ids /\ r.channel_id \in {ch.id : ch \in channels}

\* C19: when a store write fails while a message or delete handler runs, the
\* event is dropped (nothing is emitted and no row changes), the connection
\* stays open with its rooms, and the failure does not leave the handler as
\* an unhandled error.
C19_StoreFailureContained ==
    [][(/\ ev'.handler \in {"personal_message", "chat_message",
                            "channel_message", "delete_message"}
        /\ ret'.exc = "sqlite3.Error")
       => /\ emitted' = <<>>
          /\ conn' = conn
          /\ conn'[ev'.sid].live
          /\ personal_messages' = personal_messages
          /\ chat_messages' = chat_messages
          /\ channel_messages' = channel_messages
          /\ ret'.end # "raise"]_vars

\* C20: in every reachable state the sender of every row of the channel
\* message log is the admin of the channel the row targets, and a
\* delete_message event removes a channel message only when it comes from the
\* admin of that message's channel.
C20_ChannelLogIsAdminOnly ==
    [][/\ \A r \in channel_messages' :
            \E ch \in channels' : ch.id = r.channel_id /\ ch.admin_id = r.sender_id
       /\ ev'.handler = "delete_message" =>
            \A r \in channel_messages \ channel_messages' :
                \E ch \in channels : ch.id = r.channel_id /\ ch.admin_id = ev'.user_id]_vars

\* C20 witness: the admin of a channel deleted one of its two messages through
\* delete_message; the other message is still in the log.
C20_Witness ==
    /\ ev.handler = "delete_message"
    /\ ev.scope = "channel"
    /\ ret.ok
    /\ HasEvent(emitted, "message_deleted")
    /\ \E ch \in channels : ch.admin_id = ev.user_id
    /\ \E r \in channel_messages : r.sender_id = ev.user_id /\ r.id # AskedMsgId(ev)

\* The live connections that are members of a room
MembersOf(room) == {c \in Sids : conn[c].live /\ room \in conn[c].rooms}

\* The relay of a typing step: one typing event, relayed to the room's members except
\* the sending connection; for a pair room one typing_presence event, to the
\* other participant's presence room when the sender is one of two distinct
\* ids; for any other room no typing_presence event.
TypingRelayed(e, es) ==
    /\ Cardinality(EventsNamed(es, "typing")) = 1
    /\ \A i \in EventsNamed(es, "typing") :
         /\ es[i].to = ToRoom(e.room.s)
         /\ es[i].payload.user_id = e.user_id
         /\ Recipients(es[i], conn) = MembersOf(e.room.s) \ {e.sid}
    /\ PairIds(e.room) = {} => EventsNamed(es, "typing_presence") = {}
    /\ PairIds(e.room) # {} =>
         /\ Cardinality(EventsNamed(es, "typing_presence")) = 1
         /\ \A i \in EventsNamed(es, "typing_presence") :
              /\ es[i].payload.user_id = e.user_id
              /\ \E id \in PairIds(e.room) : es[i].to = ToRoom(Str_user \o IntToStr(id))
              /\ (e.user_id \in PairIds(e.room) /\ Cardinality(PairIds(e.room)) = 2)
                   => es[i].to =
                        ToRoom(Str_user \o IntToStr(OtherOf(PairIds(e.room), e.user_id)))

\* The typing_presence events of a step that went to the sender's own presence room
TypingPresenceToSelf(e, es) ==
    {i \in EventsNamed(es, "typing_presence") :
        e.user_id # None /\ es[i].to = ToRoom(Str_user \o IntToStr(e.user_id))}

\* A typing event from an authenticated user with a room present
IsTyping(e) == e.handler = "typing" /\ e.username # NoUsername /\ ~Falsy(e.room)

\* C21: a typing event from an authenticated user with a room
\* present is relayed as typing to every member of the room except the sending
\* connection; for a pair room "a:b" a typing_presence event also goes to the
\* presence room of the other participant, never to the sender's own presence
\* room; for a room that is not a pair of integers no typing_presence is emitted.
C21_TypingRelayNeverToSelf ==
    [][IsTyping(ev') =>
         /\ TypingRelayed(ev', emitted')
         /\ TypingPresenceToSelf(ev', emitted') = {}]_vars

\* C22: a message_deleted notice for a personal-scope deletion is delivered
\* only to connections joined to the canonical pair room of the deleting user
\* and the peer of the deleted message, also when the delete_message event
\* carries no parseable peer_id.
C22_PersonalDeleteNoticeStaysInPairRoom ==
    [][(ev'.handler = "delete_message" /\ ev'.scope = "personal")
       => \A i \in EventsNamed(emitted', "message_deleted") :
            \A row \in personal_messages \ personal_messages' :
              \A c \in Recipients(emitted'[i], conn') :
                CanonicalPairRoom(row.sender_id, row.to_user_id) \in conn'[c].rooms]_vars

\* C23: after a successful delete_message with scope chat (or channel), the
\* message_deleted notice is broadcast to room "chat:<c>" (or "channel:<c>")
\* where c is the chat (or channel) the deleted message belonged to in the
\* store, whatever chat_id / channel_id the event carried.
C23_ScopedDeleteNoticeToOwningRoom ==
    [][(ev'.handler = "delete_message" /\ ret'.ok)
       => /\ ev'.scope = "chat" =>
               \A row \in chat_messages \ chat_messages' :
                 /\ HasEvent(emitted', "message_deleted")
                 /\ \A i \in EventsNamed(emitted', "message_deleted") :
                      emitted'[i].to = ToRoom(ChatRoom(row.chat_id))
          /\ ev'.scope = "channel" =>
               \A row \in channel_messages \ channel_messages' :
                 /\ HasEvent(emitted', "message_deleted")
                 /\ \A i \in EventsNamed(emitted', "message_deleted") :
                      emitted'[i].to = ToRoom(ChannelRoom(row.channel_id))]_vars

\* C24: join and leave are idempotent set operations on a connection's room
\* membership. Joining a room the connection is in, or leaving one it is not
\* in, leaves the membership unchanged; after join(room) the connection is a
\* member and receives the system notice broadcast to the room; after
\* leave(room) it is not a member and does not receive the notice; a join or
\* leave without a room identifier changes no membership and emits no notice.
C24_JoinLeaveIdempotent ==
    [][ev'.handler \in {"join", "leave"} =>
         LET c == ev'.sid
             room == ev'.room
         IN  /\ \A d \in Sids \ {c} : conn'[d] = conn[d]
             /\ Falsy(room) => (conn' = conn /\ emitted' = <<>>)
             /\ (~Falsy(room) /\ ev'.handler = "join") =>
                  /\ conn'[c].rooms = conn[c].rooms \cup {room.s}
                  /\ room.s \in conn[c].rooms => conn' = conn
                  /\ Len(emitted') = 1
                  /\ emitted'[1].event = "system"
                  /\ emitted'[1].to = ToRoom(room.s)
                  /\ c \in Recipients(emitted'[1], conn')
             /\ (~Falsy(room) /\ ev'.handler = "leave") =>
                  /\ conn'[c].rooms = conn[c].rooms \ {room.s}
                  /\ room.s \notin conn[c].rooms => conn' = conn
                  /\ Len(emitted') = 1
                  /\ emitted'[1].event = "system"
                  /\ emitted'[1].to = ToRoom(room.s)
                  /\ c \notin Recipients(emitted'[1], conn')]_vars

\* C24 witness: a connection has just left room "1:2", which the other
\* connection is still in; the notice reached the other connection only.
C24_Witness ==
    /\ ev.handler = "leave"
    /\ ev.room = JStr(Room_1_2)
    /\ Room_1_2 \notin conn[ev.sid].rooms
    /\ Len(emitted) = 1
    /\ Recipients(emitted[1], conn) = Sids \ {ev.sid}

\* C25: delete_chat(chat_id, owner_id) called by the chat's admin removes, in
\* one step, the chat row with every chat message and every membership row of
\* that chat, and returns true, so that afterwards no message or membership
\* row references the deleted chat; called by anyone else it returns false and
\* removes nothing.
C25_DeleteChatCascades ==
    [][(ev'.handler = "delete_chat" /\ PyInt(ev'.ref).err = "") =>
         LET chat_id == PyInt(ev'.ref).val IN
         IF \E c \in chats : c.id = chat_id /\ c.admin_id = ev'.user_id
         THEN /\ ret'.ok
              /\ chats' = {c \in chats : c.id # chat_id}
              /\ chat_messages' = {m \in chat_messages : m.chat_id # chat_id}
              /\ chat_members' = {m \in chat_members : m.chat_id # chat_id}
              /\ ~\E m \in chat_messages' \cup chat_members' : m.chat_id = chat_id
         ELSE /\ ~ret'.ok
              /\ UNCHANGED <<chats, chat_messages, chat_members>>]_vars

\* C25 witness: the admin's delete_chat of chat 1 succeeded and left neither
\* the chat nor a message or membership row of it.
C25_Witness ==
    /\ ev.handler = "delete_chat"
    /\ ev.ref = JInt(1)
    /\ ret.ok
    /\ ~\E c \in chats : c.id = 1
    /\ ~\E m \in chat_messages \cup chat_members : m.chat_id = 1
    /\ \E i \in EventsNamed(emitted, "system") : emitted[i].payload.message = "chat_deleted"

\* The presence events of a step that report a user offline
OfflineEvents(es, user_id) ==
    {i \in EventsNamed(es, "presence") :
        ~es[i].payload.online /\ es[i].payload.user_id = user_id}

\* C26: a presence event with online=false for user u is broadcast exactly
\* when u is removed from the Presence Registry: every disconnect that removes
\* u emits one such event, to all, and a disconnect that finds u absent from
\* the registry emits none and leaves the registry unchanged.
C26_OfflineEventIffRemoved ==
    [][/\ \A u \in UserIds \cup {None} :
            /\ Cardinality(OfflineEvents(emitted', u)) =
                 (IF u \in ONLINE_USER_IDS \ ONLINE_USER_IDS' THEN 1 ELSE 0)
            /\ \A i \in OfflineEvents(emitted', u) : emitted'[i].to = ToAll
       /\ ONLINE_USER_IDS \ ONLINE_USER_IDS' # {} =>
            (ev'.handler = "disconnect" /\ ONLINE_USER_IDS \ ONLINE_USER_IDS' = {ev'.user_id})
       /\ (ev'.handler = "disconnect" /\ ev'.user_id \notin ONLINE_USER_IDS) =>
            (emitted' = <<>> /\ ONLINE_USER_IDS' = ONLINE_USER_IDS)]_vars

\* C26 witness: a disconnect has removed a user from the registry and emitted
\* the offline event while the user has another live connection, whose
\* disconnect will find the user absent.
C26_Witness ==
    /\ ev.handler = "disconnect"
    /\ ev.user_id # None
    /\ ev.user_id \notin ONLINE_USER_IDS
    /\ OfflineEvents(emitted, ev.user_id) # {}
    /\ LiveConnsOf(ev.user_id) # {}

====
